---- MODULE Spec2Model ----
(***************************************************************************)
(* The data-access state store of the HR record-keeping application:       *)
(* AppProvider (src/src/pages/HRDatabase.tsx, lines 296-481) and the       *)
(* submit handler of the HRDatabase view (lines 32-56).                    *)
(*                                                                         *)
(* The persistence service (supabase) is modelled by four append-only      *)
(* tables.  Every `await supabase...` of the code is a suspension point:   *)
(* the part of a function before it and the part after it are separate    *)
(* actions.  The service executes a statement when it is issued; its      *)
(* reply is handled later, in any order with the other replies.            *)
(* JavaScript runs each continuation to completion, so one action is one   *)
(* continuation together with the promise reactions it triggers            *)
(* (Promise.all settling, refreshData resuming).                           *)
(* An error reply stands for a statement the service did not execute.      *)
(***************************************************************************)
EXTENDS Integers, Sequences, FiniteSets, TLC

\* ------------------------------------------------------------- bounds
MaxCalls   == 3     \* calls made of the provider: the mount effect, refreshData, add*
MaxReloads == 2     \* of which refreshData (the mount effect included)
MaxLiveCalls == 2   \* calls in the behaviours checked for liveness
MaxFail    == 1     \* errors the persistence service returns
MaxTexts   == 2     \* question texts on one HR-entry form

\* ------------------------------------------------------------- values
Null      == 0              \* SQL NULL / JavaScript null for an id column
Undefined == "undefined"    \* an optional field the caller did not supply
NullMark  == "null"         \* JavaScript null for a text column

NoData == [id |-> 0]
OkReply(d) == [err |-> FALSE, data |-> d]
ErrReply   == [err |-> TRUE, data |-> NoData]

VARIABLES
    db_hr, db_questions, db_answers, db_jobs,   \* the persistence service's tables
    now,                                        \* the service's clock (created_at)
    fails,                                      \* errors returned so far
    hrEntries, questions, answers, jobs,        \* useState collections
    loading,                                    \* useState(true)
    reloads,                                    \* refreshData invocations
    ops                                         \* add* invocations

tables == <<db_hr, db_questions, db_answers, db_jobs, now, fails>>
colls  == <<hrEntries, questions, answers, jobs>>
vars   == <<db_hr, db_questions, db_answers, db_jobs, now, fails,
            hrEntries, questions, answers, jobs, loading, reloads, ops>>

Reloads == 1..MaxReloads
Ops     == 1..MaxCalls

\* ------------------------------------------------------------- helpers
Prefix(s, n) == SubSeq(s, 1, n)

\* .order('created_at', { ascending: false }): rows by created_at descending;
\* rows of one statement share created_at and come latest-inserted first.
RECURSIVE OrderByCreatedAtDesc(_)
OrderByCreatedAtDesc(rows) ==
    IF rows = <<>> THEN <<>>
    ELSE LET i == CHOOSE i \in DOMAIN rows :
                    \A j \in DOMAIN rows :
                        \/ rows[i].created_at > rows[j].created_at
                        \/ rows[i].created_at = rows[j].created_at /\ i >= j
             rest == [j \in 1..(Len(rows) - 1) |->
                          IF j < i THEN rows[j] ELSE rows[j + 1]]
         IN  <<rows[i]>> \o OrderByCreatedAtDesc(rest)

\* questions.filter(q => q.hr_entry_id === entry.id)
QuestionsOfEntryById(entry, qs) ==
    SelectSeq(qs, LAMBDA q : q.id = entry.id)
QuestionsOfEntry(entry, qs) ==
    SelectSeq(qs, LAMBDA q : q.hr_entry_id = entry.id)

\* hrEntries.map(entry => ({...entry, questions: questions.filter(...)}))
JoinEntries(hrRows, qRows) ==
    [i \in DOMAIN hrRows |->
        [questions |-> QuestionsOfEntry(hrRows[i], qRows)] @@ hrRows[i]]

\* [data, ...prev]
PrependAtEnd(data, prev) == Append(prev, data)
Prepend(data, prev) == <<data>> \o prev

\* if (error) { ...; throw error; }
InsertFailedUnchecked(resp) == FALSE
InsertFailed(resp) == resp.err

\* job.phone_number ?? null
OrNull(v) == IF v = Undefined \/ v = NullMark THEN NullMark ELSE v


\* The service assigns id and created_at to the rows of one insert statement.
Inserted(table, rows, t) ==
    [i \in DOMAIN rows |-> [id |-> Len(table) + i, created_at |-> t] @@ rows[i]]

\* ------------------------------------------------------------- initial state
\* The tables outlive the page session: one HR entry with one question is
\* already stored, and a second HR entry with none.  The provider's state is that of its useState calls.
SeedHR == [id |-> 1, created_at |-> 1, da_name |-> "A", company_name |-> "Acme",
           hr_name |-> "Bob", hr_contact |-> "555-0100"]
SeedHR2 == [id |-> 2, created_at |-> 3, da_name |-> "A", company_name |-> "Initech",
            hr_name |-> "Eve", hr_contact |-> "555-0101"]
SeedQuestion == [id |-> 1, created_at |-> 2, text |-> 1, topic |-> "",
                 asked_by |-> "", hr_entry_id |-> 1]

IdleBranch == [pc |-> "idle", n |-> 0]
IdleHR     == [pc |-> "idle", n1 |-> 0, n2 |-> 0]
IdleReload == [status |-> "idle", t0 |-> 0, hr |-> IdleHR,
               questions |-> IdleBranch, answers |-> IdleBranch, jobs |-> IdleBranch]
IdleOp     == [kind |-> "none", pc |-> "idle", arg |-> NoData, resp |-> OkReply(NoData)]

Init ==
    /\ db_hr = <<SeedHR, SeedHR2>>
    /\ db_questions = <<SeedQuestion>>
    /\ db_answers = <<>>
    /\ db_jobs = <<>>
    /\ now = 3
    /\ fails = 0
    /\ hrEntries = <<>>
    /\ questions = <<>>
    /\ answers = <<>>
    /\ jobs = <<>>
    /\ loading = TRUE
    /\ reloads = [r \in Reloads |-> IdleReload]
    /\ ops = [k \in Ops |-> IdleOp]

\* ------------------------------------------------------------- full reload
Started == {r \in Reloads : reloads[r].status # "idle"}
Mounted == Started # {}
Calls   == Cardinality(Started) + Cardinality({k \in Ops : ops[k].pc # "idle"})

Branches == {"questions", "answers", "jobs"}

Table(b) == CASE b = "questions" -> db_questions
              [] b = "answers"   -> db_answers
              [] b = "jobs"      -> db_jobs

PromiseAllSettled(rec) ==
    IF rec.hr.pc \in {"ok", "thrown"} /\ \A b \in Branches : rec[b].pc \in {"set", "caught"}
    THEN "fulfilled"
    ELSE "pending"

\* Promise.all([...]): rejected as soon as fetchHREntries throws (the three
\* other reads catch their own errors and always resolve), fulfilled once all
\* four have resolved.
PromiseAll(rec) ==
    IF rec.hr.pc = "thrown" THEN "rejected"
    ELSE IF rec.hr.pc = "ok" /\ \A b \in Branches : rec[b].pc \in {"set", "caught"}
         THEN "fulfilled"
         ELSE "pending"

LoadingInFinally(before, after, cur) ==
    IF before = "pending" /\ after \in {"fulfilled", "rejected"} THEN FALSE ELSE cur

\* "await Promise.all(...); setLoading(false);": the line after the await
\* runs only when the await returns normally.
LoadingAfterAwait(before, after, cur) ==
    IF before = "pending" /\ after = "fulfilled" THEN FALSE ELSE cur

\* A continuation of reload r ended leaving `rec`: settle Promise.all and
\* resume refreshData.
Settle(r, rec) ==
    /\ reloads' = [reloads EXCEPT ![r] = [rec EXCEPT !.status = PromiseAll(rec)]]
    /\ loading' = LoadingAfterAwait(reloads[r].status, PromiseAll(rec), loading)

\* The service executes a statement when it is issued and its reply reaches the
\* client later: a select is answered with the rows stored at that moment (their
\* number is kept, the tables being append-only), or with an error.
Select(table, ok) == IF ok THEN [pc |-> "got", n |-> Len(table)] ELSE [pc |-> "err", n |-> 0]

Refused(oks) == Cardinality({x \in DOMAIN oks : ~oks[x]})

\* refreshData up to its await: setLoading(true) and the four reads are issued
\* (fetchHREntries up to its first await).
RefreshStart(r) ==
    /\ reloads[r].status = "idle"
    /\ \A q \in Reloads : q < r => reloads[q].status # "idle"
    /\ Calls < MaxCalls
    /\ loading' = TRUE
    /\ \E oks \in [Branches \cup {"hr"} -> BOOLEAN] :
        /\ fails + Refused(oks) <= MaxFail
        /\ fails' = fails + Refused(oks)
        /\ reloads' = [reloads EXCEPT ![r] =
              [status |-> "pending", t0 |-> now,
               hr |-> [pc |-> IF oks["hr"] THEN "got1" ELSE "err1",
                       n1 |-> IF oks["hr"] THEN Len(db_hr) ELSE 0, n2 |-> 0],
               questions |-> Select(db_questions, oks["questions"]),
               answers |-> Select(db_answers, oks["answers"]),
               jobs |-> Select(db_jobs, oks["jobs"])]]
    /\ UNCHANGED <<db_hr, db_questions, db_answers, db_jobs, now, colls, ops>>

\* useEffect(() => { refreshData(); }, [])
Mount ==
    /\ ~Mounted
    /\ RefreshStart(1)

\* refreshData() called again through the context
RefreshData ==
    /\ Mounted
    /\ \E r \in Reloads : RefreshStart(r)

\* fetchHREntries after its first await: throw hrError, or issue the second
\* select (questions), which the service answers or refuses.
FetchHREntriesStep1(r) ==
    /\ reloads[r].hr.pc \in {"got1", "err1"}
    /\ IF reloads[r].hr.pc = "err1"
       THEN /\ Settle(r, [reloads[r] EXCEPT !.hr.pc = "thrown"])
            /\ UNCHANGED fails
       ELSE \/ /\ Settle(r, [reloads[r] EXCEPT !.hr.pc = "got2",
                                               !.hr.n2 = Len(db_questions)])
               /\ UNCHANGED fails
            \/ /\ fails < MaxFail
               /\ fails' = fails + 1
               /\ Settle(r, [reloads[r] EXCEPT !.hr.pc = "err2"])
    /\ UNCHANGED <<db_hr, db_questions, db_answers, db_jobs, now, colls, ops>>

\* The rows fetchHREntries hands to setHREntries.
FetchedEntries(rec) ==
    JoinEntries(Prefix(db_hr, rec.hr.n1), Prefix(db_questions, rec.hr.n2))

\* fetchHREntries after its second await: throw qError, or join and setHREntries.
FetchHREntriesStep2(r) ==
    /\ reloads[r].hr.pc \in {"got2", "err2"}
    /\ IF reloads[r].hr.pc = "err2"
       THEN /\ Settle(r, [reloads[r] EXCEPT !.hr = [pc |-> "thrown", n1 |-> 0, n2 |-> 0]])
            /\ UNCHANGED hrEntries
       ELSE /\ hrEntries' = FetchedEntries(reloads[r])
            /\ Settle(r, [reloads[r] EXCEPT !.hr = [pc |-> "ok", n1 |-> 0, n2 |-> 0]])
    /\ UNCHANGED <<tables, questions, answers, jobs, ops>>

AfterFetchNoReturn(branch, table, cur) ==
    IF branch.pc = "err" THEN <<>>
    ELSE OrderByCreatedAtDesc(Prefix(table, branch.n))

\* What a fetchQuestions / fetchAnswers / fetchJobs continuation leaves in its
\* collection: on error it logs and returns, otherwise setX(data || []).
AfterFetch(branch, table, cur) ==
    IF branch.pc = "err" THEN cur
    ELSE OrderByCreatedAtDesc(Prefix(table, branch.n))

BranchDone(branch) ==
    [pc |-> IF branch.pc = "err" THEN "caught" ELSE "set", n |-> 0]

FetchQuestionsResume(r) ==
    /\ reloads[r].questions.pc \in {"got", "err"}
    /\ questions' = AfterFetch(reloads[r].questions, db_questions, questions)
    /\ Settle(r, [reloads[r] EXCEPT !.questions = BranchDone(@)])
    /\ UNCHANGED <<tables, hrEntries, answers, jobs, ops>>

FetchAnswersResume(r) ==
    /\ reloads[r].answers.pc \in {"got", "err"}
    /\ answers' = AfterFetch(reloads[r].answers, db_answers, answers)
    /\ Settle(r, [reloads[r] EXCEPT !.answers = BranchDone(@)])
    /\ UNCHANGED <<tables, hrEntries, questions, jobs, ops>>

FetchJobsResume(r) ==
    /\ reloads[r].jobs.pc \in {"got", "err"}
    /\ jobs' = AfterFetch(reloads[r].jobs, db_jobs, jobs)
    /\ Settle(r, [reloads[r] EXCEPT !.jobs = BranchDone(@)])
    /\ UNCHANGED <<tables, hrEntries, questions, answers, ops>>

\* ------------------------------------------------------------- add operations
FreeOp == {k \in Ops : /\ Calls < MaxCalls
                        /\ ops[k].pc = "idle"
                        /\ \A q \in Ops : q < k => ops[q].pc # "idle"}

\* The forms the HRDatabase view can hold on submit.
Forms == {[da_name |-> d, company_name |-> "Acme", hr_name |-> "Bob",
           hr_contact |-> "555-0100", questions |-> [i \in 1..n |-> i]] :
              d \in {"", "A"}, n \in 0..MaxTexts}

\* handleSubmit's presence check
FormValid(formData) ==
    /\ formData.da_name # ""
    /\ formData.company_name # ""
    /\ formData.hr_name # ""
    /\ formData.hr_contact # ""

\* const { questions, ...hrData } = entry
HrData(entry) == [f \in DOMAIN entry \ {"questions"} |-> entry[f]]

\* questions.map((q) => ({ text: q, topic: '', asked_by: '', hr_entry_id: hrEntry.id }))
QuestionRowsUnlinked(texts, hrEntry) ==
    [i \in DOMAIN texts |->
        [text |-> texts[i], topic |-> "", asked_by |-> "", hr_entry_id |-> Null]]
QuestionRows(texts, hrEntry) ==
    [i \in DOMAIN texts |->
        [text |-> texts[i], topic |-> "", asked_by |-> "", hr_entry_id |-> hrEntry.id]]

\* if (questions && questions.length > 0)
HasQuestions(texts) == Len(texts) > 0

\* handleSubmit -> addHREntry(formData) up to its first await: the hr_entries
\* insert, which the service performs or refuses.  The view renders its form
\* only while loading is false.
AddHREntryCall(formData) ==
    /\ Mounted
    /\ ~loading
    /\ FormValid(formData)
    /\ \E k \in FreeOp :
        \/ LET row == Inserted(db_hr, <<HrData(formData)>>, now + 1)[1] IN
           /\ db_hr' = Append(db_hr, row)
           /\ now' = now + 1
           /\ ops' = [ops EXCEPT ![k] = [kind |-> "hr", pc |-> "wait1",
                                         arg |-> formData, resp |-> OkReply(row)]]
           /\ UNCHANGED fails
        \/ /\ fails < MaxFail
           /\ fails' = fails + 1
           /\ ops' = [ops EXCEPT ![k] = [kind |-> "hr", pc |-> "wait1",
                                         arg |-> formData, resp |-> ErrReply]]
           /\ UNCHANGED <<db_hr, now>>
    /\ UNCHANGED <<db_questions, db_answers, db_jobs, colls, loading, reloads>>

\* addHREntry after the first await: throw hrError; or build the question rows
\* and insert them as one batch (performed or refused); or, with no texts, return.
\* The reply awaited next keeps hrEntry in its data field.
AddHREntryStep1(k) ==
    /\ ops[k].kind = "hr" /\ ops[k].pc = "wait1"
    /\ IF InsertFailed(ops[k].resp)
       THEN /\ ops' = [ops EXCEPT ![k].pc = "thrown"]
            /\ UNCHANGED <<db_questions, now, fails>>
       ELSE IF HasQuestions(ops[k].arg.questions)
       THEN \/ /\ db_questions' = db_questions \o
                      Inserted(db_questions,
                               QuestionRows(ops[k].arg.questions, ops[k].resp.data),
                               now + 1)
               /\ now' = now + 1
               /\ ops' = [ops EXCEPT ![k].pc = "wait2",
                                     ![k].resp = OkReply(ops[k].resp.data)]
               /\ UNCHANGED fails
            \/ /\ fails < MaxFail
               /\ fails' = fails + 1
               /\ ops' = [ops EXCEPT ![k].pc = "wait2",
                                     ![k].resp = [err |-> TRUE, data |-> ops[k].resp.data]]
               /\ UNCHANGED <<db_questions, now>>
       ELSE /\ ops' = [ops EXCEPT ![k].pc = "done"]
            /\ UNCHANGED <<db_questions, now, fails>>
    /\ UNCHANGED <<db_hr, db_answers, db_jobs, colls, loading, reloads>>

\* addHREntry after the second await: throw qError, or return (no state update).
AddHREntryStep2(k) ==
    /\ ops[k].kind = "hr" /\ ops[k].pc = "wait2"
    /\ ops' = [ops EXCEPT ![k].pc = IF InsertFailed(ops[k].resp) THEN "thrown" ELSE "done"]
    /\ UNCHANGED <<tables, colls, loading, reloads>>

\* A single-row insert(...).select().single() on `table`: the new table, the
\* clock, the error count and the reply.  ok = FALSE is the service refusing.
InsertOne(table, row, ok) ==
    IF ok
    THEN LET r == Inserted(table, <<row>>, now + 1)[1] IN
         [table |-> Append(table, r), now |-> now + 1, fails |-> fails,
          resp |-> OkReply(r)]
    ELSE [table |-> table, now |-> now, fails |-> fails + 1, resp |-> ErrReply]

CanAnswer(ok) == ok \/ fails < MaxFail

\* addQuestion(question) up to its await
AddQuestionCall(question) ==
    /\ Mounted
    /\ \E k \in FreeOp, ok \in BOOLEAN :
        /\ CanAnswer(ok)
        /\ LET res == InsertOne(db_questions, question, ok) IN
           /\ db_questions' = res.table
           /\ now' = res.now
           /\ fails' = res.fails
           /\ ops' = [ops EXCEPT ![k] = [kind |-> "question", pc |-> "wait",
                                         arg |-> question, resp |-> res.resp]]
    /\ UNCHANGED <<db_hr, db_answers, db_jobs, colls, loading, reloads>>

\* addQuestion after its await: log and throw, or setQuestions(prev => [data, ...prev])
AddQuestionResume(k) ==
    /\ ops[k].kind = "question" /\ ops[k].pc = "wait"
    /\ IF InsertFailed(ops[k].resp)
       THEN /\ ops' = [ops EXCEPT ![k].pc = "thrown"]
            /\ UNCHANGED questions
       ELSE /\ questions' = Prepend(ops[k].resp.data, questions)
            /\ ops' = [ops EXCEPT ![k].pc = "done"]
    /\ UNCHANGED <<tables, hrEntries, answers, jobs, loading, reloads>>

\* addAnswer(answer) up to its await
AddAnswerCall(answer) ==
    /\ Mounted
    /\ \E k \in FreeOp, ok \in BOOLEAN :
        /\ CanAnswer(ok)
        /\ LET res == InsertOne(db_answers, answer, ok) IN
           /\ db_answers' = res.table
           /\ now' = res.now
           /\ fails' = res.fails
           /\ ops' = [ops EXCEPT ![k] = [kind |-> "answer", pc |-> "wait",
                                         arg |-> answer, resp |-> res.resp]]
    /\ UNCHANGED <<db_hr, db_questions, db_jobs, colls, loading, reloads>>

\* addAnswer after its await: log and throw, or setAnswers(prev => [data, ...prev])
AddAnswerResume(k) ==
    /\ ops[k].kind = "answer" /\ ops[k].pc = "wait"
    /\ IF InsertFailed(ops[k].resp)
       THEN /\ ops' = [ops EXCEPT ![k].pc = "thrown"]
            /\ UNCHANGED answers
       ELSE /\ answers' = Prepend(ops[k].resp.data, answers)
            /\ ops' = [ops EXCEPT ![k].pc = "done"]
    /\ UNCHANGED <<tables, hrEntries, questions, jobs, loading, reloads>>

\* const jobToInsert = { ..., phone_number: job.phone_number ?? null,
\*                       file_name: job.file_name ?? null }
JobToInsert(job) ==
    [da_name |-> job.da_name, company_name |-> job.company_name,
     job_link |-> job.job_link,
     phone_number |-> OrNull(job.phone_number),
     file_name |-> OrNull(job.file_name)]

\* addJob(job) up to its await
AddJobCall(job) ==
    /\ Mounted
    /\ \E k \in FreeOp, ok \in BOOLEAN :
        /\ CanAnswer(ok)
        /\ LET res == InsertOne(db_jobs, JobToInsert(job), ok) IN
           /\ db_jobs' = res.table
           /\ now' = res.now
           /\ fails' = res.fails
           /\ ops' = [ops EXCEPT ![k] = [kind |-> "job", pc |-> "wait",
                                         arg |-> job, resp |-> res.resp]]
    /\ UNCHANGED <<db_hr, db_questions, db_answers, colls, loading, reloads>>

\* addJob after its await: alert, log and throw, or setJobs(prev => [data, ...prev])
AddJobResume(k) ==
    /\ ops[k].kind = "job" /\ ops[k].pc = "wait"
    /\ IF InsertFailed(ops[k].resp)
       THEN /\ ops' = [ops EXCEPT ![k].pc = "thrown"]
            /\ UNCHANGED jobs
       ELSE /\ jobs' = Prepend(ops[k].resp.data, jobs)
            /\ ops' = [ops EXCEPT ![k].pc = "done"]
    /\ UNCHANGED <<tables, hrEntries, questions, answers, loading, reloads>>

\* ------------------------------------------------------------- inputs
Ids(table) == {table[i].id : i \in DOMAIN table}

QuestionInputs ==
    {[text |-> 0, topic |-> "t", asked_by |-> "da", hr_entry_id |-> h] :
        h \in {Null} \cup Ids(db_hr)}

AnswerInputs ==
    {[question_id |-> q, answer_text |-> "a", answered_by |-> "da"] :
        q \in {1}}

JobInputs ==
    {[da_name |-> "A", company_name |-> "Acme", job_link |-> "l",
      phone_number |-> Undefined, file_name |-> Undefined],
     [da_name |-> "A", company_name |-> "Acme", job_link |-> "l",
      phone_number |-> "555-0100", file_name |-> "cv.pdf"]}

\* ------------------------------------------------------------- specification
Next ==
    \/ Mount
    \/ RefreshData
    \/ \E r \in Reloads : FetchHREntriesStep1(r)
    \/ \E r \in Reloads : FetchHREntriesStep2(r)
    \/ \E r \in Reloads : FetchQuestionsResume(r)
    \/ \E r \in Reloads : FetchAnswersResume(r)
    \/ \E r \in Reloads : FetchJobsResume(r)
    \/ \E f \in Forms : AddHREntryCall(f)
    \/ \E k \in Ops : AddHREntryStep1(k)
    \/ \E k \in Ops : AddHREntryStep2(k)
    \/ \E q \in QuestionInputs : AddQuestionCall(q)
    \/ \E k \in Ops : AddQuestionResume(k)
    \/ \E a \in AnswerInputs : AddAnswerCall(a)
    \/ \E k \in Ops : AddAnswerResume(k)
    \/ \E j \in JobInputs : AddJobCall(j)
    \/ \E k \in Ops : AddJobResume(k)

Spec == Init /\ [][Next]_vars

\* ------------------------------------------------------------- properties
Range(s) == {s[i] : i \in DOMAIN s}

RECURSIVE SumOver(_, _)
SumOver(S, f) ==
    IF S = {} THEN 0
    ELSE LET x == CHOOSE x \in S : TRUE IN f[x] + SumOver(S \ {x}, f)

HrOps == {k \in Ops : ops[k].kind = "hr"}

\* The HR-entry row / the question rows that invocation k of addHREntry has
\* had inserted so far.
EntryInserted(k) == IF ops[k].resp.data = NoData THEN 0 ELSE 1
BatchInserted(k) ==
    IF ops[k].pc = "done" \/ (ops[k].pc = "wait2" /\ ~ops[k].resp.err)
    THEN Len(ops[k].arg.questions) ELSE 0
SingleInserted(kind) ==
    Cardinality({k \in Ops : ops[k].kind = kind /\ ops[k].resp.data # NoData})

\* C1: every addHREntry that returns normally for a form with N question texts
\* has inserted exactly one hr_entries row (carrying the form's scalar fields)
\* and exactly N questions rows, the form's texts in order, each with
\* hr_entry_id equal to the id the service gave the new entry; and the tables
\* hold no row beyond those the operations inserted.
C1_OneEntryNQuestions ==
    /\ \A k \in HrOps : ops[k].pc = "done" =>
          LET e == ops[k].resp.data
              mine == SelectSeq(db_questions,
                                LAMBDA q : q.hr_entry_id = e.id /\ q.topic = "")
          IN  /\ Cardinality({i \in DOMAIN db_hr : db_hr[i].id = e.id}) = 1
              /\ \E i \in DOMAIN db_hr :
                    /\ db_hr[i] = e
                    /\ HrData(ops[k].arg) = [f \in DOMAIN HrData(ops[k].arg) |-> e[f]]
              /\ Len(mine) = Len(ops[k].arg.questions)
              /\ \A i \in DOMAIN mine : mine[i].text = ops[k].arg.questions[i]
    /\ Len(db_hr) = 2 + SumOver(HrOps, [k \in Ops |-> EntryInserted(k)])
    /\ Len(db_questions) = 1 + SumOver(HrOps, [k \in Ops |-> BatchInserted(k)])
                             + SingleInserted("question")

C1_Witness ==
    \E k \in HrOps : ops[k].pc = "done" /\ Len(ops[k].arg.questions) = 2

ShiftedBy(row, old, new) ==
    /\ Len(new) = Len(old) + 1
    /\ new[1] = row
    /\ \A i \in DOMAIN old : new[i + 1] = old[i]

\* C2: when addQuestion, addAnswer or addJob succeeds, its collection afterwards
\* has the inserted row at index 0 and every earlier row one place further, and
\* the three other collections are unchanged.
C2_PrependOnSuccess ==
    [][\A k \in Ops : (ops[k].pc = "wait" /\ ops'[k].pc = "done") =>
          LET row == ops[k].resp.data IN
          CASE ops[k].kind = "question" ->
                  /\ ShiftedBy(row, questions, questions')
                  /\ UNCHANGED <<hrEntries, answers, jobs>>
            [] ops[k].kind = "answer" ->
                  /\ ShiftedBy(row, answers, answers')
                  /\ UNCHANGED <<hrEntries, questions, jobs>>
            [] ops[k].kind = "job" ->
                  /\ ShiftedBy(row, jobs, jobs')
                  /\ UNCHANGED <<hrEntries, questions, answers>>]_vars

C2_Witness ==
    \E k \in Ops : /\ ops[k].kind = "question" /\ ops[k].pc = "done"
                   /\ Len(questions) >= 2
                   /\ questions[1] = ops[k].resp.data
                   /\ questions[2] = SeedQuestion

\* C3: when the service answers an insert of addHREntry, addQuestion, addAnswer
\* or addJob with an error, the operation throws and none of the in-memory
\* collections changes.
C3_ErrorLeavesCollections ==
    [][\A k \in Ops :
          (ops[k].pc \in {"wait", "wait1", "wait2"} /\ ops[k].resp.err
             /\ ops'[k] # ops[k])
          => (ops'[k].pc = "thrown" /\ UNCHANGED colls)]_vars

C3_Witness ==
    \E k \in Ops : /\ ops[k].kind = "question" /\ ops[k].pc = "thrown"
                   /\ questions = <<SeedQuestion>>

DescByCreatedAt(s) ==
    \A i, j \in DOMAIN s : i < j => s[i].created_at >= s[j].created_at

\* C6: in every reachable state the questions, answers and jobs collections
\* are each ordered by created_at descending.
C6_NewestFirst ==
    /\ DescByCreatedAt(questions)
    /\ DescByCreatedAt(answers)
    /\ DescByCreatedAt(jobs)

NoDuplicateIds(s) == \A i, j \in DOMAIN s : s[i].id = s[j].id => i = j

Collection(kind) == CASE kind = "question" -> questions
                      [] kind = "answer"   -> answers
                      [] kind = "job"      -> jobs

\* C9: in every reachable state no row id occurs twice in the questions,
\* answers or jobs collection, and every row a successful add prepended is
\* still in its collection.
C9_NoDuplicateNoLoss ==
    /\ NoDuplicateIds(questions)
    /\ NoDuplicateIds(answers)
    /\ NoDuplicateIds(jobs)
    /\ \A k \in Ops : (ops[k].kind \in {"question", "answer", "job"} /\ ops[k].pc = "done")
          => ops[k].resp.data \in Range(Collection(ops[k].kind))

\* C10: whenever loading is false, no refreshData call is still pending.
C10_NotLoadingMeansIdle ==
    ~loading => \A r \in Reloads : reloads[r].status # "pending"

Count(x, s) == Cardinality({j \in DOMAIN s : s[j] = x})

\* C5: when a reload that began after addQuestion had a question stored for an
\* existing HR entry hands its entries to setHREntries, the owning entry is
\* there once, its questions list holds that question exactly once, and no
\* other entry's list holds it.
C5_ReloadShowsAddedQuestion ==
    [][\A r \in Reloads : (reloads[r].hr.pc = "got2" /\ reloads'[r].hr.pc = "ok") =>
          \A k \in Ops :
             LET x == ops[k].resp.data IN
             (/\ ops[k].kind = "question" /\ x # NoData
              /\ x.hr_entry_id # Null
              /\ x.created_at <= reloads[r].t0)
             => /\ Cardinality({i \in DOMAIN hrEntries' :
                                    hrEntries'[i].id = x.hr_entry_id}) = 1
                /\ \A i \in DOMAIN hrEntries' :
                      Count(x, hrEntries'[i].questions)
                         = IF hrEntries'[i].id = x.hr_entry_id THEN 1 ELSE 0]_vars

C5_Witness ==
    \E k \in Ops, r \in Reloads, i \in DOMAIN hrEntries :
        /\ ops[k].kind = "question" /\ ops[k].pc = "done"
        /\ ops[k].resp.data.hr_entry_id = hrEntries[i].id
        /\ ops[k].resp.data.created_at <= reloads[r].t0
        /\ reloads[r].status = "fulfilled"
        /\ Count(ops[k].resp.data, hrEntries[i].questions) = 1
        /\ Len(hrEntries) >= 2

\* C7 as stated: a reload whose HR-entries read threw has replaced none of the
\* collections.
C7_AllOrNothing ==
    \A r \in Reloads : reloads[r].status = "rejected" =>
        /\ reloads[r].hr.pc # "ok"
        /\ \A b \in Branches : reloads[r][b].pc # "set"

Fetched(b) == CASE b = "questions" -> questions
                [] b = "answers"   -> answers
                [] b = "jobs"      -> jobs

\* C7 as amended: when the HR-entries read of a reload throws, refreshData
\* rejects in that step, and that reload neither replaces hrEntries nor sets
\* loading to false, then or later; its questions, answers and jobs reads
\* still replace their collections with the rows fetched when they succeed.
C7_HRFailureKeepsEntriesOnly ==
    [][\A r \in Reloads :
          /\ (reloads[r].hr.pc \in {"err1", "err2"} /\ reloads'[r].hr.pc = "thrown")
                => (reloads'[r].status = "rejected" /\ UNCHANGED <<colls, loading>>)
          /\ (reloads[r].status = "rejected" /\ reloads'[r] # reloads[r])
                => /\ reloads'[r].status = "rejected"
                   /\ UNCHANGED <<hrEntries, loading>>
                   /\ \A b \in Branches :
                         (reloads[r][b].pc = "got" /\ reloads'[r][b].pc # "got")
                         => /\ reloads'[r][b].pc = "set"
                            /\ Len(Fetched(b)') = reloads[r][b].n
                            /\ Range(Fetched(b)') = Range(Prefix(Table(b), reloads[r][b].n))
      ]_vars

C7_Witness ==
    \E r \in Reloads :
        /\ reloads[r].status = "rejected"
        /\ reloads[r].questions.pc = "set"
        /\ questions = <<SeedQuestion>>
        /\ hrEntries = <<>>
        /\ loading

\* C8: a reload whose HR-entries read fails (either select) rejects, leaves
\* hrEntries as it was and never sets loading to false; loading goes from
\* true to false only in the step in which some reload whose HR-entries read
\* succeeded completes, so with a rejected reload and no completed one
\* loading is true.
C8_HRFailureKeepsLoading ==
    /\ [][\A r \in Reloads :
             /\ (reloads[r].hr.pc \in {"err1", "err2"} /\ reloads'[r].hr # reloads[r].hr)
                   => /\ reloads'[r].hr.pc = "thrown"
                      /\ reloads'[r].status = "rejected"
                      /\ UNCHANGED <<hrEntries, loading>>
             /\ reloads[r].status = "rejected" => reloads'[r].status = "rejected"]_vars
    /\ [][(loading /\ ~loading') =>
             \E r \in Reloads : /\ reloads[r].status = "pending"
                                /\ reloads'[r].status = "fulfilled"
                                /\ reloads'[r].hr.pc = "ok"]_vars
    /\ []((/\ \E r \in Reloads : reloads[r].status = "rejected"
           /\ \A r \in Reloads : reloads[r].status # "fulfilled") => loading)

C8_Witness ==
    \E r \in Reloads :
        /\ reloads[r].status = "rejected"
        /\ \A b \in Branches : reloads[r][b].pc \in {"set", "caught"}
        /\ \A q \in Reloads : reloads[q].status \in {"rejected", "idle"}
        /\ loading
        /\ hrEntries = <<>>

\* ------------------------------------------------------------- liveness
\* The event loop runs every continuation whose reply has arrived.
ReloadStep(r) ==
    \/ FetchHREntriesStep1(r)
    \/ FetchHREntriesStep2(r)
    \/ FetchQuestionsResume(r)
    \/ FetchAnswersResume(r)
    \/ FetchJobsResume(r)

\* Liveness is checked on the behaviours with at most MaxLiveCalls calls.
LiveBudget == Calls' <= MaxLiveCalls

FairNext ==
    \/ Mount
    \/ RefreshData /\ LiveBudget
    \/ \E r \in Reloads : FetchHREntriesStep1(r)
    \/ \E r \in Reloads : FetchHREntriesStep2(r)
    \/ \E r \in Reloads : FetchQuestionsResume(r)
    \/ \E r \in Reloads : FetchAnswersResume(r)
    \/ \E r \in Reloads : FetchJobsResume(r)
    \/ \E f \in Forms : AddHREntryCall(f) /\ LiveBudget
    \/ \E k \in Ops : AddHREntryStep1(k)
    \/ \E k \in Ops : AddHREntryStep2(k)
    \/ \E q \in QuestionInputs : AddQuestionCall(q) /\ LiveBudget
    \/ \E k \in Ops : AddQuestionResume(k)
    \/ \E a \in AnswerInputs : AddAnswerCall(a) /\ LiveBudget
    \/ \E k \in Ops : AddAnswerResume(k)
    \/ \E j \in JobInputs : AddJobCall(j) /\ LiveBudget
    \/ \E k \in Ops : AddJobResume(k)

FairSpec == Init /\ [][FairNext]_vars /\ \A r \in Reloads : WF_vars(ReloadStep(r))

Degraded(rec) ==
    /\ rec.hr.pc \in {"got2", "ok"}
    /\ \E b \in Branches : rec[b].pc \in {"err", "caught"}

\* C4: a reload whose questions, answers or jobs read fails while its
\* HR-entries read succeeds completes with loading false; the failing read
\* leaves its collection as it was; and the reload replaces hrEntries by the
\* entries fetched, each with exactly the fetched questions that carry its id.
C4_PartialDegradation ==
    /\ \A r \in Reloads :
          Degraded(reloads[r]) ~> (reloads[r].status = "fulfilled" /\ ~loading)
    /\ [][\A r \in Reloads :
             /\ \A b \in Branches :
                   (reloads[r][b].pc = "err" /\ reloads'[r][b].pc # "err")
                   => (reloads'[r][b].pc = "caught" /\ Fetched(b)' = Fetched(b))
             /\ (Degraded(reloads[r]) /\ reloads[r].hr.pc = "got2"
                   /\ reloads'[r].hr.pc = "ok")
                   => /\ Len(hrEntries') = reloads[r].hr.n1
                      /\ \A i \in DOMAIN hrEntries' :
                            /\ hrEntries'[i].id = db_hr[i].id
                            /\ \A j \in 1..reloads[r].hr.n2 :
                                  Count(db_questions[j], hrEntries'[i].questions)
                                     = IF db_questions[j].hr_entry_id = db_hr[i].id
                                       THEN 1 ELSE 0
                            /\ Range(hrEntries'[i].questions)
                                  \subseteq Range(Prefix(db_questions, reloads[r].hr.n2))
      ]_vars

C4_Witness ==
    \E r \in Reloads :
        /\ reloads[r].status = "fulfilled"
        /\ reloads[r].questions.pc = "caught"
        /\ ~loading
        /\ Len(hrEntries) = 2
        /\ hrEntries[1].questions = <<SeedQuestion>>

====
